---- MODULE Spec2Model ----
(***************************************************************************)
(* Hospital staff allocation: the in-memory entity store, the constraint   *)
(* rule engine, the cross-allocation conflict detector, the allocation     *)
(* orchestrator (manual create, auto-allocate, validate, alternative       *)
(* suggestions, administrative updates) and the shift lifecycle with       *)
(* attendance and staff availability, modelled from backend/app.           *)
(*                                                                         *)
(* Abstractions: assigned_at is "set"/"not set" (TRUE/FALSE); the clock    *)
(* counts hours from 2024-07-15T06:00 and attendance and shift timestamps  *)
(* are clock readings; a rule or                                           *)
(* validation message is the tuple <<kind, rule name>>; allocation ids     *)
(* (uuid4 hex) are fresh naturals; a severity score is the fraction        *)
(* [num, den].  The store is populated with a small catalogue of staff     *)
(* and shifts of the kind create_staff / create_shift accept.              *)
(***************************************************************************)
EXTENDS Integers, Sequences, FiniteSets, TLC

VARIABLES staff, shifts, allocations, staff_availability,
          availability_timeline, nextId, calls, last, now, event_loop

vars == <<staff, shifts, allocations, staff_availability,
          availability_timeline, nextId, calls, last, now, event_loop>>

store == <<staff, shifts, allocations, staff_availability,
           availability_timeline>>

(* ------------------------------------------------------------------ *)
(* Bounds                                                               *)
(* ------------------------------------------------------------------ *)

\* allocation records ever created in one run
MaxAllocs == 3

\* bound on the number of requests served in one run
MaxCalls == 4

\* bound on the number of create requests waiting for the event loop
MaxReady == 2

(* ------------------------------------------------------------------ *)
(* Catalogue: staff members and shifts held by the store                *)
(* ------------------------------------------------------------------ *)

\* an Optional timestamp that is None
NoTime == -1

\* the clock readings at which the store is called
Times == {0, 10, 14}

StaffIds == {"s1", "s2"}
GhostStaff == "s9"

\* the ids create_staff gives to members created after initialization
NewStaffIds == {"s3"}

\* self.staff of a store on which create_staff has run five times, in list
\* order
RosterOrder == <<"s1", "s2", "s3", "s4", "s5", "s6", "s7">>

\* excluded_staff_ids of a suggest_alternative_allocations call
ExcludedLists == {<<>>, <<"s1">>, <<"s3">>, <<"s1", "s4">>}

\* suggestions[:5]
TopN == 5
ShiftIds == {"sh1", "sh2", "sh3"}
GhostShift == "sh9"

\* StaffMember attributes (models/staff.py)
StaffMember(s) ==
    CASE s = "s1" -> [role |-> "doctor", department |-> "emergency",
                      skill_level |-> 9, max_hours_per_week |-> 20,
                      unavailable_dates |-> {},
                      certification_level |-> "senior trauma",
                      preferred_shifts |-> {"morning"},
                      experience_years |-> 15]
      [] s = "s2" -> [role |-> "nurse", department |-> "icu",
                      skill_level |-> 4, max_hours_per_week |-> 40,
                      unavailable_dates |-> {"2024-07-15"},
                      certification_level |-> "basic",
                      preferred_shifts |-> {"night"},
                      experience_years |-> 2]
      [] s = "s3" -> [role |-> "nurse", department |-> "icu",
                      skill_level |-> 5, max_hours_per_week |-> 40,
                      unavailable_dates |-> {},
                      certification_level |-> "basic",
                      preferred_shifts |-> {"morning"},
                      experience_years |-> 20]
      [] s = "s4" -> [role |-> "doctor", department |-> "emergency",
                      skill_level |-> 8, max_hours_per_week |-> 40,
                      unavailable_dates |-> {},
                      certification_level |-> "trauma",
                      preferred_shifts |-> {"morning"},
                      experience_years |-> 10]
      [] s = "s5" -> [role |-> "nurse", department |-> "emergency",
                      skill_level |-> 7, max_hours_per_week |-> 40,
                      unavailable_dates |-> {},
                      certification_level |-> "trauma",
                      preferred_shifts |-> {},
                      experience_years |-> 8]
      [] s = "s6" -> [role |-> "doctor", department |-> "emergency",
                      skill_level |-> 6, max_hours_per_week |-> 40,
                      unavailable_dates |-> {},
                      certification_level |-> "trauma",
                      preferred_shifts |-> {"night"},
                      experience_years |-> 4]
      [] s = "s7" -> [role |-> "nurse", department |-> "emergency",
                      skill_level |-> 5, max_hours_per_week |-> 40,
                      unavailable_dates |-> {},
                      certification_level |-> "trauma",
                      preferred_shifts |-> {"morning"},
                      experience_years |-> 15]

\* Shift attributes that no modelled operation writes (models/shift.py);
\* max_capacity is state (update_shift writes it), see the variable shifts
Shift(h) ==
    CASE h = "sh1" -> [date |-> "2024-07-15", department |-> "emergency",
                       shift_type |-> "morning",
                       minimum_skill_level |-> 5,
                       special_requirements |-> <<"trauma_certified">>,
                       required_staff |-> [doctor |-> 1]]
      [] h = "sh2" -> [date |-> "2024-07-16", department |-> "icu",
                       shift_type |-> "morning",
                       minimum_skill_level |-> 3,
                       special_requirements |-> <<"bilingual">>,
                       required_staff |-> [doctor |-> 1, nurse |-> 1]]
      [] h = "sh3" -> [date |-> "16/07/2024", department |-> "icu",
                       shift_type |-> "night",
                       minimum_skill_level |-> 3,
                       special_requirements |-> <<>>,
                       required_staff |-> [nurse |-> 1]]

\* values of the AllocationStatus enum (models/allocation.py)
AllocationStatus == {"pending", "confirmed", "rejected", "completed"}

\* the statuses an update_allocation_status call is made with
RequestedStatuses == {"confirmed", "rejected"}

\* shift_ids of an auto-allocate request
ShiftIdLists == {<<>>, <<"sh9">>, <<"sh1">>, <<"sh2">>,
                 <<"sh1", "sh2">>, <<"sh2", "sh9">>}

\* staff ids the advisory proposes for one shift, in order
StaffProposals == {<<>>, <<"s1">>, <<"s9">>, <<"s1", "s2">>}

\* advisory outcomes drawn for the validations of a whole batch
BatchLLMOutcomes == {"object", "unparsable", "json_number"}

\* max_capacity values an administrative update_shift sets
Capacities == {1, 2}

\* date ranges <<start_date, end_date>> a conflict analysis is asked for
AnalysisRanges == {<<"16/07/2024", "2024-07-22">>, <<"2024-07-15", "2024-07-15">>,
                   <<"2024-07-15", "2024-07-16">>}

InitialCapacity(h) == CASE h = "sh1" -> 1 [] h = "sh2" -> 3 [] h = "sh3" -> 2

\* datetime.strptime(date, "%Y-%m-%d"): the day number counted from Monday
\* 2024-07-15, or -1 where strptime raises ValueError
strptime(d) ==
    CASE d = "2024-07-15" -> 0
      [] d = "2024-07-16" -> 1
      [] d = "2024-07-22" -> 7
      [] OTHER -> -1

\* datetime.weekday(): Monday is 0
weekday(day) == day % 7

\* "certified" in requirement.lower()
IsCertified(requirement) == requirement \in {"trauma_certified"}

\* requirement.replace("_certified", "")
CertType(requirement) ==
    CASE requirement = "trauma_certified" -> "trauma"
      [] OTHER -> requirement

\* cert_type in staff.certification_level.lower()
InCertificationLevel(cert_type, level) ==
    \/ cert_type = "trauma" /\ level = "senior trauma"
    \/ cert_type = level

(* ------------------------------------------------------------------ *)
(* Store lookups (data/database.py)                                     *)
(* ------------------------------------------------------------------ *)

get_allocations_by_staff(allocs, staff_id) ==
    SelectSeq(allocs, LAMBDA a : a.staff_id = staff_id)

get_allocations_by_shift(allocs, shift_id) ==
    SelectSeq(allocs, LAMBDA a : a.shift_id = shift_id)

Range(q) == {q[i] : i \in 1..Len(q)}

AllocIds(allocs) == {allocs[i].id : i \in 1..Len(allocs)}

get_allocation_by_id(allocs, id) ==
    allocs[CHOOSE i \in 1..Len(allocs) :
              /\ allocs[i].id = id
              /\ \A j \in 1..(i-1) : allocs[j].id # id]

ConfirmedCount(allocs, shift_id) ==
    Cardinality({i \in 1..Len(allocs) :
                    /\ allocs[i].shift_id = shift_id
                    /\ allocs[i].status = "confirmed"})

(* ------------------------------------------------------------------ *)
(* Constraint rule engine (agents/constraint_agent.py)                  *)
(* ------------------------------------------------------------------ *)

\* _define_constraint_rules: the registry, in dict (insertion) order
RuleNames == <<"max_weekly_hours", "skill_level_requirement",
               "department_match", "availability_check",
               "minimum_rest_period", "certification_requirements",
               "shift_capacity", "role_requirements">>

Severity(rule) ==
    CASE rule = "max_weekly_hours" -> "critical"
      [] rule = "skill_level_requirement" -> "critical"
      [] rule = "department_match" -> "medium"
      [] rule = "availability_check" -> "critical"
      [] rule = "minimum_rest_period" -> "high"
      [] rule = "certification_requirements" -> "critical"
      [] rule = "shift_capacity" -> "critical"
      [] rule = "role_requirements" -> "high"

CriticalRules == {RuleNames[i] : i \in {j \in 1..Len(RuleNames) :
                                          Severity(RuleNames[j]) = "critical"}}

\* A check yields "violated", "ok", or "raised" when the check itself throws.
Verdict(violated) == IF violated THEN "violated" ELSE "ok"

\* hours the staff member's stored allocations contribute to the week
\* starting at week_start: 8 per allocation whose shift exists and falls in it
WeeklyHours(staff_allocations, week_start, shs) ==
    8 * Cardinality({i \in 1..Len(staff_allocations) :
           /\ staff_allocations[i].shift_id \in DOMAIN shs
           /\ LET alloc_date ==
                    strptime(Shift(staff_allocations[i].shift_id).date)
              IN  week_start <= alloc_date /\ alloc_date < week_start + 7})

check_weekly_hours(a, allocs, shs) ==
    LET shift_date == strptime(Shift(a.shift_id).date)
        staff_allocations == get_allocations_by_staff(allocs, a.staff_id)
        week_start == shift_date - weekday(shift_date)
        weekly_hours == WeeklyHours(staff_allocations, week_start, shs) + 8
    IN  IF shift_date = -1 THEN "raised"
        ELSE IF \E i \in 1..Len(staff_allocations) :
                   /\ staff_allocations[i].shift_id \in DOMAIN shs
                   /\ strptime(Shift(staff_allocations[i].shift_id).date) = -1
             THEN "raised"
        ELSE Verdict(weekly_hours > StaffMember(a.staff_id).max_hours_per_week)

check_skill_level(a, allocs, shs) ==
    Verdict(StaffMember(a.staff_id).skill_level
              < Shift(a.shift_id).minimum_skill_level)

check_department_match(a, allocs, shs) ==
    Verdict(StaffMember(a.staff_id).department # Shift(a.shift_id).department)

check_availability(a, allocs, shs) ==
    Verdict(Shift(a.shift_id).date \in StaffMember(a.staff_id).unavailable_dates)

\* the loop of _check_rest_period over the staff member's allocations, in
\* store order, from position i on
RECURSIVE RestScan(_, _, _, _, _)
RestScan(staff_allocations, i, a, current_date, shs) ==
    IF i > Len(staff_allocations) THEN "ok"
    ELSE IF staff_allocations[i].id = a.id
         THEN RestScan(staff_allocations, i + 1, a, current_date, shs)
    ELSE IF staff_allocations[i].shift_id \notin DOMAIN shs
         THEN RestScan(staff_allocations, i + 1, a, current_date, shs)
    ELSE LET other_date == strptime(Shift(staff_allocations[i].shift_id).date)
         IN  IF other_date = -1 THEN "raised"
             ELSE IF current_date - other_date = 0 THEN "violated"
             ELSE RestScan(staff_allocations, i + 1, a, current_date, shs)

check_rest_period(a, allocs, shs) ==
    LET current_date == strptime(Shift(a.shift_id).date)
    IN  IF current_date = -1 THEN "raised"
        ELSE RestScan(get_allocations_by_staff(allocs, a.staff_id), 1, a,
                      current_date, shs)

check_certifications(a, allocs, shs) ==
    LET reqs == Shift(a.shift_id).special_requirements
    IN  Verdict(\E i \in 1..Len(reqs) :
                  /\ IsCertified(reqs[i])
                  /\ ~InCertificationLevel(CertType(reqs[i]),
                        StaffMember(a.staff_id).certification_level))

check_shift_capacity(a, allocs, shs) ==
    LET current_capacity == Len(get_allocations_by_shift(allocs, a.shift_id))
    IN  Verdict(current_capacity >= shs[a.shift_id].max_capacity)

\* role_counts of _check_role_requirements: the shift's stored allocations
\* whose staff member exists, by role, plus one for the candidate's own role
RoleCount(role, a, allocs, stf) ==
    LET shift_allocations == get_allocations_by_shift(allocs, a.shift_id)
    IN  Cardinality({i \in 1..Len(shift_allocations) :
              /\ shift_allocations[i].staff_id \in stf
              /\ StaffMember(shift_allocations[i].staff_id).role = role})
        + (IF StaffMember(a.staff_id).role = role THEN 1 ELSE 0)

check_role_requirements(a, allocs, shs, stf) ==
    LET required_staff == Shift(a.shift_id).required_staff
    IN  Verdict(\E role \in DOMAIN required_staff :
                   RoleCount(role, a, allocs, stf) < required_staff[role])

\* rule_config["check_function"](allocation, staff, shift)
check_function(rule, a, allocs, shs, stf) ==
    CASE rule = "max_weekly_hours" -> check_weekly_hours(a, allocs, shs)
      [] rule = "skill_level_requirement" -> check_skill_level(a, allocs, shs)
      [] rule = "department_match" -> check_department_match(a, allocs, shs)
      [] rule = "availability_check" -> check_availability(a, allocs, shs)
      [] rule = "minimum_rest_period" -> check_rest_period(a, allocs, shs)
      [] rule = "certification_requirements" -> check_certifications(a, allocs, shs)
      [] rule = "shift_capacity" -> check_shift_capacity(a, allocs, shs)
      [] rule = "role_requirements" -> check_role_requirements(a, allocs, shs, stf)

\* What the advisory call of one validation comes back with
\* (llm_service.evaluate_allocation_constraints):
\*   "object"         a JSON object with a "suggestions" list
\*   "unparsable"     text json.loads rejects: the degraded default
\*   "provider_error" generate_response caught the provider's exception and
\*                    returned "Error generating response: ...", unparsable too
\*   "json_array"     parseable JSON that is a list
\*   "json_number"    parseable JSON that is a number
LLMOutcomes == {"object", "unparsable", "provider_error", "json_array",
                "json_number"}

\* evaluate_allocation_constraints: the value json.loads yields, or the
\* degraded default of the except branch
evaluate_allocation_constraints(llm) ==
    CASE llm = "object" ->
            [kind |-> "dict", suggestions |-> <<<<"llm", "advice">>>>]
      [] llm \in {"unparsable", "provider_error"} ->
            [kind |-> "dict", suggestions |-> <<<<"llm", "Manual review required">>>>]
      [] llm = "json_array" -> [kind |-> "list", suggestions |-> <<>>]
      [] llm = "json_number" -> [kind |-> "int", suggestions |-> <<>>]
      [] llm = "none" -> [kind |-> "dict", suggestions |-> <<>>]

\* `"suggestions" in llm_analysis` raises TypeError on a value that is no
\* container (int, float, bool, None)
MembershipRaises(llm_analysis) == llm_analysis.kind = "int"

\* the rule loop of validate_allocation from rule i on; acc accumulates
\* validation_result and the two counters
RECURSIVE RunRules(_, _, _, _, _, _)
RunRules(i, acc, a, allocs, shs, stf) ==
    IF i > Len(RuleNames) THEN acc
    ELSE LET rule == RuleNames[i]
             v == check_function(rule, a, allocs, shs, stf)
             msg == <<"violated", rule>>
             next ==
               IF v = "raised"
               THEN [acc EXCEPT !.warnings = Append(@, <<"error", rule>>)]
               ELSE LET counted ==
                          IF v # "violated" THEN acc
                          ELSE IF Severity(rule) = "critical"
                          THEN [acc EXCEPT !.total_violations = @ + 1,
                                           !.critical_violations = @ + 1,
                                           !.violations = Append(@, msg)]
                          ELSE IF Severity(rule) = "high"
                          THEN [acc EXCEPT !.total_violations = @ + 1,
                                           !.warnings = Append(@, msg)]
                          ELSE [acc EXCEPT !.total_violations = @ + 1,
                                           !.suggestions = Append(@, msg)]
                    IN  [counted EXCEPT
                           !.constraint_details = Append(@, rule),
                           !.violated = IF v = "violated" THEN @ \cup {rule} ELSE @]
         IN  RunRules(i + 1, next, a, allocs, shs, stf)

EmptyResult ==
    [returned |-> TRUE, found |-> TRUE, is_valid |-> TRUE,
     violations |-> <<>>, warnings |-> <<>>, suggestions |-> <<>>,
     severity_score |-> [num |-> 0, den |-> 1],
     constraint_details |-> <<>>, violated |-> {},
     total_violations |-> 0, critical_violations |-> 0, llm |-> "none"]

\* validate_allocation: `returned` is FALSE when the call raises instead of
\* returning validation_result; `violated` (the rules whose check reported a
\* violation) and `llm` (the advisory outcome, "none" if not asked) are
\* bookkeeping of the model
\* lines 66-115 of validate_allocation: the lookup of staff and shift, the
\* rule loop and the verdict
JudgeAllocation(a, allocs, shs, stf) ==
    IF a.staff_id \notin stf \/ a.shift_id \notin DOMAIN shs
    THEN [EmptyResult EXCEPT !.found = FALSE, !.is_valid = FALSE,
                             !.violations = <<<<"not_found", "staff_or_shift">>>>,
                             !.severity_score = [num |-> 1, den |-> 1]]
    ELSE LET r == RunRules(1, EmptyResult, a, allocs, shs, stf)
         IN  [r EXCEPT !.is_valid = (r.critical_violations = 0),
                       !.severity_score = [num |-> r.critical_violations,
                                           den |-> Len(RuleNames)]]

\* lines 117-126 of validate_allocation: the advisory call, made only when
\* some rule is violated, and the merge of its suggestions
AdviseAllocation(judged, llm) ==
    LET llm_analysis == evaluate_allocation_constraints(llm)
    IN  IF judged.total_violations > 0
        THEN IF MembershipRaises(llm_analysis)
             THEN [judged EXCEPT !.returned = FALSE, !.llm = llm]
             ELSE IF llm_analysis.kind = "dict"
             THEN [judged EXCEPT !.llm = llm,
                     !.suggestions = @ \o llm_analysis.suggestions]
             ELSE [judged EXCEPT !.llm = llm]
        ELSE judged

\* the advisory outcomes that make a difference to one validation
Advisories(judged) ==
    IF judged.total_violations > 0 THEN LLMOutcomes ELSE {"none"}

validate_allocation(a, allocs, shs, stf, llm) ==
    AdviseAllocation(JudgeAllocation(a, allocs, shs, stf), llm)

\* staff_shifts' keys: the batch's staff ids in order of first occurrence
RECURSIVE StaffOrder(_, _, _)
StaffOrder(batch, i, seen) ==
    IF i > Len(batch) THEN <<>>
    ELSE IF batch[i].staff_id \in seen THEN StaffOrder(batch, i + 1, seen)
    ELSE <<batch[i].staff_id>>
           \o StaffOrder(batch, i + 1, seen \cup {batch[i].staff_id})

\* staff_shifts[staff_id]: that staff member's allocations whose shift exists
StaffShifts(batch, staff_id, shs) ==
    SelectSeq(batch, LAMBDA a : a.staff_id = staff_id /\ a.shift_id \in DOMAIN shs)

\* a detector that compares each entry with its successor only
RECURSIVE PairConflictsAdjacent(_, _, _, _)
PairConflictsAdjacent(entries, i, j, staff_id) ==
    IF i >= Len(entries) THEN <<>>
    ELSE (IF Shift(entries[i].shift_id).date = Shift(entries[i + 1].shift_id).date
          THEN <<[type |-> "double_booking", staff_id |-> staff_id,
                  conflicting_allocations |->
                     <<entries[i].id, entries[i + 1].id>>]>>
          ELSE <<>>)
         \o PairConflictsAdjacent(entries, i + 1, i + 2, staff_id)

\* the two nested loops over one staff member's entries (i < j)
RECURSIVE PairConflicts(_, _, _, _)
PairConflicts(entries, i, j, staff_id) ==
    IF i > Len(entries) THEN <<>>
    ELSE IF j > Len(entries) THEN PairConflicts(entries, i + 1, i + 2, staff_id)
    ELSE (IF Shift(entries[i].shift_id).date = Shift(entries[j].shift_id).date
          THEN <<[type |-> "double_booking", staff_id |-> staff_id,
                  conflicting_allocations |-> <<entries[i].id, entries[j].id>>]>>
          ELSE <<>>)
         \o PairConflicts(entries, i, j + 1, staff_id)

RECURSIVE ConflictsOfStaff(_, _, _, _)
ConflictsOfStaff(order, k, batch, shs) ==
    IF k > Len(order) THEN <<>>
    ELSE PairConflicts(StaffShifts(batch, order[k], shs), 1, 2, order[k])
           \o ConflictsOfStaff(order, k + 1, batch, shs)

\* ConstraintAgent._check_global_conflicts
check_global_conflicts(batch, shs) ==
    ConflictsOfStaff(StaffOrder(batch, 1, {}), 1, batch, shs)

\* validate_multiple_allocations: every allocation of the batch validated
\* against the store, then the conflict detector over the whole batch.  One
\* advisory outcome stands for the advisory calls of the whole batch: a call
\* is made only for an allocation with a violation, and the batch raises as
\* soon as one of them does.
\* a batch judged record by record against the store as it was when the
\* record was materialized, the later records of the batch missing
JudgeBatchOnPrefix(batch, allocs, shs, stf) ==
    [i \in 1..Len(batch) |->
        JudgeAllocation(batch[i],
                        SubSeq(allocs, 1, Len(allocs) - Len(batch) + i),
                        shs, stf)]

JudgeBatch(batch, allocs, shs, stf) ==
    [i \in 1..Len(batch) |-> JudgeAllocation(batch[i], allocs, shs, stf)]

BatchAdvisories(judged) ==
    IF \E i \in 1..Len(judged) : judged[i].total_violations > 0
    THEN BatchLLMOutcomes ELSE {"none"}

validate_multiple_allocations(batch, judged, shs, llm) ==
    LET individual == [i \in 1..Len(batch) |-> AdviseAllocation(judged[i], llm)]
        global_conflicts == check_global_conflicts(batch, shs)
    IN  [returned |-> \A i \in 1..Len(batch) : individual[i].returned,
         individual_validations |-> individual,
         global_conflicts |-> global_conflicts,
         overall_valid |-> /\ \A i \in 1..Len(batch) : individual[i].is_valid
                           /\ global_conflicts = <<>>,
         llm |-> llm]

(* ------------------------------------------------------------------ *)
(* Allocation orchestrator (services/allocation_service.py)             *)
(* ------------------------------------------------------------------ *)

\* AllocationRecord(...) as both create paths build it
PendingRecord(id, staff_id, shift_id, constraints_met) ==
    [id |-> id, staff_id |-> staff_id, shift_id |-> shift_id,
     status |-> "pending", assigned_at |-> FALSE,
     constraints_met |-> constraints_met, potential_issues |-> <<>>,
     checked_in_at |-> NoTime, checked_out_at |-> NoTime,
     is_present |-> FALSE, overtime_hours |-> 0]

\* create_allocation's record after validation (lines 46-53)
CreatedRecord(a, v) ==
    [a EXCEPT !.constraints_met = v.constraint_details,
              !.potential_issues = v.violations \o v.warnings,
              !.status = IF v.is_valid THEN "confirmed" ELSE "pending",
              !.assigned_at = v.is_valid]

\* a create that persists its pending record before looking up staff and
\* shift
CreatePersistFirst(staff_id, shift_id) ==
    /\ nextId <= MaxAllocs
    /\ allocations' = Append(allocations,
                             PendingRecord(nextId, staff_id, shift_id, <<>>))
    /\ nextId' = nextId + 1
    /\ last' = [op |-> "create", staff_id |-> staff_id, shift_id |-> shift_id,
                outcome |-> "null"]
    /\ UNCHANGED <<staff, shifts, staff_availability, availability_timeline>>

\* AllocationService.create_allocation
Create(staff_id, shift_id) ==
    LET a == PendingRecord(nextId, staff_id, shift_id, <<>>)
        judged == JudgeAllocation(a, allocations, shifts, staff)
        call == [op |-> "create", staff_id |-> staff_id, shift_id |-> shift_id]
    IN  IF staff_id \notin staff \/ shift_id \notin DOMAIN shifts
        THEN /\ last' = call @@ [outcome |-> "null"]
             /\ UNCHANGED <<store, nextId>>
        ELSE /\ nextId <= MaxAllocs
             /\ \E llm \in Advisories(judged) :
                LET v == AdviseAllocation(judged, llm) IN
                IF ~v.returned
                THEN /\ last' = call @@ [outcome |-> "raised", val |-> v]
                     /\ UNCHANGED <<store, nextId>>
                ELSE /\ allocations' = Append(allocations, CreatedRecord(a, v))
                     /\ nextId' = nextId + 1
                     /\ last' = call @@ [outcome |-> "returned", val |-> v]
                     /\ UNCHANGED <<staff, shifts, staff_availability,
                                    availability_timeline>>

\* the loops of AllocationAgent.allocate_staff_to_shifts: the records
\* materialized for positions k.. of shift_ids, the next fresh id being id
RECURSIVE Materialize(_, _, _, _, _)
Materialize(shift_ids, k, proposals, id, shs) ==
    IF k > Len(shift_ids) THEN <<>>
    ELSE IF shift_ids[k] \notin DOMAIN shs
         THEN Materialize(shift_ids, k + 1, proposals, id, shs)
    ELSE [i \in 1..Len(proposals[k]) |->
             PendingRecord(id + i - 1, proposals[k][i], shift_ids[k],
                           <<"ai_analysis">>)]
           \o Materialize(shift_ids, k + 1, proposals, id + Len(proposals[k]), shs)

\* lines 91-99: confirmed if the allocation's own validation passed,
\* rejected otherwise
Decide(a, validation) ==
    IF validation.is_valid
    THEN [a EXCEPT !.status = "confirmed", !.assigned_at = TRUE]
    ELSE [a EXCEPT !.status = "rejected"]

\* a fallback result that reports no shift as unallocated
FailureResultNoneUnallocated(shift_ids) ==
    [success |-> FALSE, allocations |-> <<>>,
     unallocated_shifts |-> <<>>,
     optimization_score |-> [num |-> 0, den |-> 1],
     recommendations |-> <<"Manual allocation required due to system error">>]

\* the except branch of auto_allocate_shifts
FailureResult(shift_ids) ==
    [success |-> FALSE, allocations |-> <<>>,
     unallocated_shifts |-> shift_ids,
     optimization_score |-> [num |-> 0, den |-> 1],
     recommendations |-> <<"Manual allocation required due to system error">>]

\* _generate_allocation_recommendations, without the advisor's free-text
\* lines and the confidence remark
generate_allocation_recommendations(valid, invalid, unallocated) ==
    (IF invalid # <<>> THEN <<"Review invalid allocations">> ELSE <<>>)
    \o (IF unallocated # <<>>
        THEN <<"Find staff for unallocated shifts",
               "Consider adjusting shift requirements">>
        ELSE <<>>)

\* a result whose metrics are taken over every decided allocation, not the
\* confirmed ones
SuccessResultOverAll(shift_ids, decided) ==
    LET valid == SelectSeq(decided, LAMBDA a : a.status = "confirmed")
        unallocated == SelectSeq(shift_ids, LAMBDA h :
                          \A i \in 1..Len(decided) : decided[i].shift_id # h)
        score == IF shift_ids # <<>>
                 THEN [num |-> Len(decided), den |-> Len(shift_ids)]
                 ELSE [num |-> 0, den |-> 1]
    IN  IF score.num > score.den THEN FailureResult(shift_ids)
        ELSE [success |-> Len(decided) > 0, allocations |-> valid,
              unallocated_shifts |-> unallocated,
              optimization_score |-> score,
              recommendations |-> <<>>]

\* lines 101-127; AllocationResult declares optimization_score with le=1.0,
\* so building the result raises when the ratio exceeds 1
SuccessResult(shift_ids, decided) ==
    LET valid == SelectSeq(decided, LAMBDA a : a.status = "confirmed")
        invalid == SelectSeq(decided, LAMBDA a : a.status # "confirmed")
        unallocated == SelectSeq(shift_ids, LAMBDA h :
                          \A i \in 1..Len(valid) : valid[i].shift_id # h)
        score == IF shift_ids # <<>>
                 THEN [num |-> Len(valid), den |-> Len(shift_ids)]
                 ELSE [num |-> 0, den |-> 1]
    IN  IF score.num > score.den THEN FailureResult(shift_ids)
        ELSE [success |-> Len(valid) > 0, allocations |-> valid,
              unallocated_shifts |-> unallocated,
              optimization_score |-> score,
              recommendations |->
                 generate_allocation_recommendations(valid, invalid, unallocated)]

\* AllocationService.auto_allocate_shifts
AutoAllocate(shift_ids, proposals) ==
    LET batch == Materialize(shift_ids, 1, proposals, nextId, shifts)
        stored == allocations \o batch
        judged == JudgeBatch(batch, stored, shifts, staff)
        call == [op |-> "auto_allocate", shift_ids |-> shift_ids,
                 first_id |-> nextId, created |-> Len(batch)]
    IN  /\ nextId + Len(batch) - 1 <= MaxAllocs
        /\ \A k \in 1..Len(shift_ids) :
              shift_ids[k] \notin DOMAIN shifts => proposals[k] = <<>>
        /\ nextId' = nextId + Len(batch)
        /\ \E llm \in BatchAdvisories(judged) :
           LET r == validate_multiple_allocations(batch, judged, shifts, llm)
               decided == [i \in 1..Len(batch) |->
                              Decide(batch[i], r.individual_validations[i])]
           IN
           IF \A k \in 1..Len(shift_ids) : shift_ids[k] \notin DOMAIN shifts
           THEN \* "No valid shifts found": that AllocationResult lacks the
                \* required total_cost, so building it raises into the except
                /\ allocations' = allocations
                /\ last' = call @@ [outcome |-> "failure",
                                    result |-> FailureResult(shift_ids),
                                    conflicts |-> <<>>]
           ELSE IF ~r.returned
           THEN /\ allocations' = stored
                /\ last' = call @@ [outcome |-> "failure",
                                    result |-> FailureResult(shift_ids),
                                    conflicts |-> <<>>]
           ELSE LET result == SuccessResult(shift_ids, decided) IN
                /\ allocations' = allocations \o decided
                /\ last' = call @@ [outcome |-> IF result.recommendations
                                                    = FailureResult(shift_ids).recommendations
                                                THEN "failure" ELSE "completed",
                                    result |-> result,
                                    conflicts |-> r.global_conflicts]
        /\ UNCHANGED <<staff, shifts, staff_availability, availability_timeline>>

\* AllocationService.validate_allocation(allocation_id)
ValidateById(id) ==
    /\ IF id \notin AllocIds(allocations)
       THEN last' = [op |-> "validate", id |-> id, outcome |-> "error"]
       ELSE LET judged == JudgeAllocation(get_allocation_by_id(allocations, id),
                                         allocations, shifts, staff)
            IN  \E llm \in Advisories(judged) :
                  LET v == AdviseAllocation(judged, llm) IN
                  last' = [op |-> "validate", id |-> id,
                           outcome |-> IF v.returned THEN "returned" ELSE "raised",
                           val |-> v]
    /\ UNCHANGED <<store, nextId>>

\* the date-range filter of get_conflict_analysis compares date strings;
\* DateRank is the catalogue's dates in string order
DateRank(d) ==
    CASE d = "16/07/2024" -> 0
      [] d = "2024-07-15" -> 1
      [] d = "2024-07-16" -> 2
      [] d = "2024-07-22" -> 3

RelevantAllocations(allocs, shs, start_date, end_date) ==
    SelectSeq(allocs, LAMBDA a :
        /\ a.shift_id \in DOMAIN shs
        /\ DateRank(start_date) <= DateRank(Shift(a.shift_id).date)
        /\ DateRank(Shift(a.shift_id).date) <= DateRank(end_date))

\* AllocationService.get_conflict_analysis
GetConflictAnalysis(start_date, end_date) ==
    LET batch == RelevantAllocations(allocations, shifts, start_date, end_date)
        judged == JudgeBatch(batch, allocations, shifts, staff)
    IN  /\ \E llm \in BatchAdvisories(judged) :
           LET r == validate_multiple_allocations(batch, judged, shifts, llm) IN
           last' = [op |-> "conflicts", start_date |-> start_date,
                    end_date |-> end_date,
                    outcome |-> IF r.returned THEN "returned" ELSE "raised",
                    global_conflicts |-> IF r.returned THEN r.global_conflicts
                                         ELSE <<>>]
        /\ UNCHANGED <<store, nextId>>

\* Database.update_allocation_status
UpdateAllocationStatus(id, status) ==
    /\ allocations' =
          IF id \notin AllocIds(allocations) THEN allocations
          ELSE [i \in 1..Len(allocations) |->
                  IF allocations[i].id = id
                  THEN [allocations[i] EXCEPT
                          !.status = status,
                          !.assigned_at = IF status = "confirmed" THEN TRUE ELSE @]
                  ELSE allocations[i]]
    /\ last' = [op |-> "update_allocation_status", id |-> id,
                outcome |-> IF id \in AllocIds(allocations)
                            THEN "returned" ELSE "null"]
    /\ UNCHANGED <<staff, shifts, staff_availability, availability_timeline,
                   nextId>>

\* Database.delete_allocation
DeleteAllocation(id) ==
    /\ allocations' = SelectSeq(allocations, LAMBDA a : a.id # id)
    /\ last' = [op |-> "delete_allocation", id |-> id,
                outcome |-> id \in AllocIds(allocations)]
    /\ UNCHANGED <<staff, shifts, staff_availability, availability_timeline,
                   nextId>>

\* Database.update_shift with ShiftUpdate(max_capacity = n)
UpdateShift(shift_id, max_capacity) ==
    /\ shifts' = IF shift_id \in DOMAIN shifts
                 THEN [shifts EXCEPT ![shift_id].max_capacity = max_capacity]
                 ELSE shifts
    /\ last' = [op |-> "update_shift", shift_id |-> shift_id,
                outcome |-> IF shift_id \in DOMAIN shifts
                            THEN "returned" ELSE "null"]
    /\ UNCHANGED <<staff, allocations, staff_availability,
                   availability_timeline, nextId>>

(* ------------------------------------------------------------------ *)
(* Alternative suggestions (services/allocation_service.py)             *)
(* ------------------------------------------------------------------ *)

Min(a, b) == IF a < b THEN a ELSE b

\* a skill factor that is granted below the shift's minimum as well
SkillFactorUngated(member, shift) == Min(member.skill_level, 10) * 30

\* the skill-match factor, in thousandths: min(skill_level / 10, 1) * 0.3
\* when the skill level reaches the shift's minimum
SkillFactor(member, shift) ==
    IF member.skill_level >= shift.minimum_skill_level
    THEN Min(member.skill_level, 10) * 30 ELSE 0

\* the weighted sum both scoring functions build, in thousandths: skill 30%,
\* department 25%, shift preference 20%, experience 15%, availability 10%
WeightedScore(member, shift) ==
    SkillFactor(member, shift)
    + (IF member.department = shift.department THEN 250 ELSE 0)
    + (IF shift.shift_type \in member.preferred_shifts THEN 200 ELSE 0)
    + Min(member.experience_years, 15) * 10
    + (IF shift.date \notin member.unavailable_dates THEN 100 ELSE 0)

\* round(score, 2) on thousandths
Round2(x) == ((x + 5) \div 10) * 10

\* AllocationService._calculate_suitability_score
_calculate_suitability_score(s, h) ==
    Min(WeightedScore(StaffMember(s), Shift(h)), 1000)

\* the staff and shift attributes a score is asked for, within the ranges
\* the models declare
ScoredStaff ==
    [skill_level : 1..10, department : {"emergency", "icu"},
     preferred_shifts : {{}, {"morning"}}, experience_years : {8, 40},
     unavailable_dates : {{}, {"2024-07-15"}}]

ScoredShifts ==
    [minimum_skill_level : 1..10, department : {"emergency"},
     shift_type : {"morning"}, date : {"2024-07-15"}]

\* the calculate_allocation_score tool and _calculate_suitability_score on a
\* staff member and a shift with the given attributes
CalculateAllocationScore(member, shift) ==
    /\ last' = [op |-> "score", member |-> member, shift |-> shift,
                score |-> Round2(WeightedScore(member, shift)),
                suitability |-> Min(WeightedScore(member, shift), 1000)]
    /\ UNCHANGED <<store, nextId>>

\* x sorts before y under key (is_valid, suitability_score), reverse = True
SortsBefore(x, y) ==
    \/ x.is_valid /\ ~y.is_valid
    \/ x.is_valid = y.is_valid /\ x.suitability_score > y.suitability_score

\* x put into the sorted sequence q behind every element it does not sort
\* before
RECURSIVE InsertSuggestion(_, _)
InsertSuggestion(x, q) ==
    IF q = <<>> THEN <<x>>
    ELSE IF SortsBefore(x, Head(q)) THEN <<x>> \o q
    ELSE <<Head(q)>> \o InsertSuggestion(x, Tail(q))

\* list.sort(key = ..., reverse = True): stable, equal keys keep list order
RECURSIVE SortSuggestions(_)
SortSuggestions(q) ==
    IF q = <<>> THEN <<>>
    ELSE InsertSuggestion(q[Len(q)], SortSuggestions(SubSeq(q, 1, Len(q) - 1)))

\* the staff the filter of suggest_alternative_allocations lets through, in
\* list order
available_staff(stf, h, excluded) ==
    SelectSeq(RosterOrder, LAMBDA s :
        /\ s \in stf
        /\ Shift(h).date \notin StaffMember(s).unavailable_dates
        /\ StaffMember(s).skill_level >= Shift(h).minimum_skill_level
        /\ s \notin Range(excluded))

\* AllocationService.suggest_alternative_allocations
SuggestAlternatives(shift_id, excluded) ==
    /\ IF shift_id \notin DOMAIN shifts
       THEN last' = [op |-> "suggest", shift_id |-> shift_id,
                     excluded |-> excluded, outcome |-> "returned",
                     suggestions |-> <<>>]
       ELSE LET candidates == available_staff(staff, shift_id, excluded)
                judged == [i \in 1..Len(candidates) |->
                              JudgeAllocation(
                                 PendingRecord(0, candidates[i], shift_id, <<>>),
                                 allocations, shifts, staff)]
            IN  \E llm \in BatchAdvisories(judged) :
                LET validation == [i \in 1..Len(candidates) |->
                                      AdviseAllocation(judged[i], llm)]
                    suggestions ==
                       [i \in 1..Len(candidates) |->
                           [staff_id |-> candidates[i],
                            suitability_score |->
                               _calculate_suitability_score(candidates[i],
                                                            shift_id),
                            is_valid |-> validation[i].is_valid,
                            potential_issues |->
                               validation[i].violations
                                  \o validation[i].warnings]]
                    sorted == SortSuggestions(suggestions)
                IN  IF \E i \in 1..Len(candidates) : ~validation[i].returned
                    THEN last' = [op |-> "suggest", shift_id |-> shift_id,
                                  excluded |-> excluded, outcome |-> "raised",
                                  suggestions |-> <<>>]
                    ELSE last' = [op |-> "suggest", shift_id |-> shift_id,
                                  excluded |-> excluded, outcome |-> "returned",
                                  suggestions |->
                                     SubSeq(sorted, 1, Min(TopN, Len(sorted)))]
    /\ UNCHANGED <<store, nextId>>

(* ------------------------------------------------------------------ *)
(* Shift lifecycle and attendance (data/database.py)                    *)
(* ------------------------------------------------------------------ *)

\* values of the ShiftStatus enum (models/shift.py)
ShiftStatuses == {"scheduled", "in_progress", "completed", "archived"}

\* ShiftStatus.<name>: the value of the member, or "AttributeError" when the
\* enum has no member of that name
ShiftStatusMember(name) ==
    CASE name = "SCHEDULED" -> "scheduled"
      [] name = "IN_PROGRESS" -> "in_progress"
      [] name = "COMPLETED" -> "completed"
      [] name = "ARCHIVED" -> "archived"
      [] OTHER -> "AttributeError"

\* self.shifts in list order
ShiftOrder == <<"sh1", "sh2", "sh3">>

\* datetime.combine(shift_date, time(end_hour, end_minute)) as a clock
\* reading, for the shifts whose date parses: 16:00 on the shift's date
ShiftEnd(h) == 24 * strptime(Shift(h).date) + 10

\* the part of the store the lifecycle operations write
Life(shs, availability, timeline) ==
    [shifts |-> shs, availability |-> availability, timeline |-> timeline]

\* update_staff_availability that clears current_shift_id and available_from
\* when they are passed as None
update_staff_availability_clearing(db, staff_id, status, current_shift_id, available_from) ==
    IF staff_id \notin DOMAIN db.availability THEN db
    ELSE [db EXCEPT
            !.timeline = Append(@, [staff_id |-> staff_id, status |-> status,
                                    changed_by |-> "system",
                                    shift_id |-> current_shift_id]),
            !.availability[staff_id] =
                [status |-> status,
                 current_shift_id |-> current_shift_id,
                 available_from |-> available_from]]

\* Database.update_staff_availability: nothing without a record; otherwise
\* one timeline entry, the new status, and current_shift_id / available_from
\* only when they are not None
update_staff_availability(db, staff_id, status, current_shift_id, available_from) ==
    IF staff_id \notin DOMAIN db.availability THEN db
    ELSE [db EXCEPT
            !.timeline = Append(@, [staff_id |-> staff_id, status |-> status,
                                    changed_by |-> "system",
                                    shift_id |-> current_shift_id]),
            !.availability[staff_id] =
                [status |-> status,
                 current_shift_id |-> IF current_shift_id # "none"
                                      THEN current_shift_id
                                      ELSE @.current_shift_id,
                 available_from |-> IF available_from # NoTime
                                    THEN available_from
                                    ELSE @.available_from]]

\* the staff ids of the confirmed allocations of a shift, in store order
ConfirmedStaff(allocs, shift_id) ==
    LET held == SelectSeq(get_allocations_by_shift(allocs, shift_id),
                          LAMBDA a : a.status = "confirmed")
    IN  [i \in 1..Len(held) |-> held[i].staff_id]

\* the loop shared by _mark_staff_working and _release_staff_from_shift
RECURSIVE UpdateEach(_, _, _, _, _)
UpdateEach(db, members, status, current_shift_id, available_from) ==
    IF members = <<>> THEN db
    ELSE UpdateEach(update_staff_availability(db, Head(members), status,
                                              current_shift_id, available_from),
                    Tail(members), status, current_shift_id, available_from)

_mark_staff_working(db, allocs, shift_id) ==
    UpdateEach(db, ConfirmedStaff(allocs, shift_id), "working", shift_id, NoTime)

\* current_time is the clock reading t
_release_staff_from_shift(db, allocs, shift_id, t) ==
    UpdateEach(db, ConfirmedStaff(allocs, shift_id), "available", "none", t)

\* Database.update_shift_status, called at clock reading t
update_shift_status(db, allocs, shift_id, status, actual_start_time, actual_end_time, completion_notes, t) ==
    IF shift_id \notin DOMAIN db.shifts THEN db
    ELSE LET written ==
               [db EXCEPT
                  !.shifts[shift_id].status = status,
                  !.shifts[shift_id].actual_start_time =
                      IF actual_start_time # NoTime THEN actual_start_time ELSE @,
                  !.shifts[shift_id].actual_end_time =
                      IF actual_end_time # NoTime THEN actual_end_time ELSE @,
                  !.shifts[shift_id].completion_notes =
                      IF completion_notes # "none" THEN completion_notes ELSE @]
         IN  IF status = "completed"
             THEN _release_staff_from_shift(written, allocs, shift_id, t)
             ELSE IF status = "in_progress"
             THEN _mark_staff_working(written, allocs, shift_id)
             ELSE written

\* the position of the first allocation of staff_id on shift_id, 0 if none
FirstAllocation(allocs, staff_id, shift_id) ==
    LET hits == {i \in 1..Len(allocs) :
                    allocs[i].staff_id = staff_id /\ allocs[i].shift_id = shift_id}
    IN  IF hits = {} THEN 0
        ELSE CHOOSE i \in hits : \A j \in hits : i <= j

\* AllocationRecord.hours_worked
hours_worked(a) ==
    IF a.checked_in_at = NoTime \/ a.checked_out_at = NoTime THEN 0
    ELSE a.checked_out_at - a.checked_in_at

\* the store after a lifecycle operation
Written(db) ==
    /\ shifts' = db.shifts
    /\ staff_availability' = db.availability
    /\ availability_timeline' = db.timeline

\* Database.check_in_staff at clock reading t
CheckIn(staff_id, shift_id, t) ==
    LET k == FirstAllocation(allocations, staff_id, shift_id)
        call == [op |-> "check_in", staff_id |-> staff_id,
                 shift_id |-> shift_id, at |-> t]
    IN  IF k = 0
        THEN /\ last' = call @@ [outcome |-> "null"]
             /\ UNCHANGED <<store, nextId>>
        ELSE LET allocs == [allocations EXCEPT ![k].checked_in_at = t,
                                               ![k].is_present = TRUE]
                 marked == update_staff_availability(
                              Life(shifts, staff_availability,
                                   availability_timeline),
                              staff_id, "working", shift_id, NoTime)
                 started ==
                    IF /\ shift_id \in DOMAIN shifts
                       /\ shifts[shift_id].status = "scheduled"
                    THEN update_shift_status(marked, allocs, shift_id,
                                             "in_progress", t, NoTime, "none", t)
                    ELSE marked
             IN  /\ allocations' = allocs
                 /\ Written(started)
                 /\ last' = call @@ [outcome |-> "returned"]
                 /\ UNCHANGED <<staff, nextId>>

\* a check-out that stores max(0, hours_worked - 8) as overtime
CheckOutResetting(staff_id, shift_id, t) ==
    LET k == FirstAllocation(allocations, staff_id, shift_id)
        call == [op |-> "check_out", staff_id |-> staff_id,
                 shift_id |-> shift_id, at |-> t]
    IN  IF k = 0
        THEN /\ last' = call @@ [outcome |-> "null"]
             /\ UNCHANGED <<store, nextId>>
        ELSE LET out == [allocations[k] EXCEPT !.checked_out_at = t,
                                               !.is_present = FALSE]
                 released == update_staff_availability(
                                Life(shifts, staff_availability,
                                     availability_timeline),
                                staff_id, "available", "none", t)
             IN  /\ allocations' =
                       [allocations EXCEPT ![k] =
                          [out EXCEPT !.overtime_hours =
                              IF hours_worked(out) > 8
                              THEN hours_worked(out) - 8 ELSE 0]]
                 /\ Written(released)
                 /\ last' = call @@ [outcome |-> "returned"]
                 /\ UNCHANGED <<staff, nextId>>

\* Database.check_out_staff at clock reading t
CheckOut(staff_id, shift_id, t) ==
    LET k == FirstAllocation(allocations, staff_id, shift_id)
        call == [op |-> "check_out", staff_id |-> staff_id,
                 shift_id |-> shift_id, at |-> t]
    IN  IF k = 0
        THEN /\ last' = call @@ [outcome |-> "null"]
             /\ UNCHANGED <<store, nextId>>
        ELSE LET out == [allocations[k] EXCEPT !.checked_out_at = t,
                                               !.is_present = FALSE]
                 released == update_staff_availability(
                                Life(shifts, staff_availability,
                                     availability_timeline),
                                staff_id, "available", "none", t)
             IN  /\ allocations' =
                       [allocations EXCEPT ![k] =
                          [out EXCEPT !.overtime_hours =
                              IF hours_worked(out) > 8
                              THEN hours_worked(out) - 8 ELSE @]]
                 /\ Written(released)
                 /\ last' = call @@ [outcome |-> "returned"]
                 /\ UNCHANGED <<staff, nextId>>

\* Database.update_shift_status called directly at clock reading t; a
\* completion carries the end time and a note
UpdateShiftStatus(shift_id, status, t) ==
    /\ Written(update_shift_status(
                  Life(shifts, staff_availability, availability_timeline),
                  allocations, shift_id, status, NoTime,
                  IF status = "completed" THEN t ELSE NoTime,
                  IF status = "completed" THEN "Completed" ELSE "none", t))
    /\ last' = [op |-> "update_shift_status", shift_id |-> shift_id,
                status |-> status, at |-> t,
                outcome |-> IF shift_id \in DOMAIN shifts
                            THEN "returned" ELSE "null"]
    /\ UNCHANGED <<staff, allocations, nextId>>

\* the loop of bulk_complete_shifts over positions k.. of shift_ids: the
\* argument ShiftStatus.completed is evaluated before each call, and the
\* except clause of the loop body turns a raise into a False result
RECURSIVE BulkLoop(_, _, _, _, _)
BulkLoop(acc, allocs, shift_ids, k, t) ==
    IF k > Len(shift_ids) THEN acc
    ELSE LET status == ShiftStatusMember("completed")
             raised == status = "AttributeError"
             db == IF raised THEN acc.db
                   ELSE update_shift_status(acc.db, allocs, shift_ids[k], status,
                                            NoTime, t, "Bulk completion", t)
             ok == ~raised /\ shift_ids[k] \in DOMAIN acc.db.shifts
         IN  BulkLoop([db |-> db, results |-> Append(acc.results, ok)],
                      allocs, shift_ids, k + 1, t)

\* Database.bulk_complete_shifts at clock reading t
BulkCompleteShifts(shift_ids, t) ==
    LET done == BulkLoop([db |-> Life(shifts, staff_availability,
                                      availability_timeline),
                          results |-> <<>>],
                         allocations, shift_ids, 1, t)
    IN  /\ Written(done.db)
        /\ last' = [op |-> "bulk_complete_shifts", shift_ids |-> shift_ids,
                    at |-> t, results |-> done.results]
        /\ UNCHANGED <<staff, allocations, nextId>>

\* a sweep that also goes over the shifts already completed
RECURSIVE SweepLoopRepeating(_, _, _, _)
SweepLoopRepeating(db, allocs, k, t) ==
    IF k > Len(ShiftOrder) THEN db
    ELSE LET h == ShiftOrder[k] IN
         IF \/ h \notin DOMAIN db.shifts
            \/ db.shifts[h].status \notin {"in_progress", "completed"}
            \/ strptime(Shift(h).date) < 0
            \/ t <= ShiftEnd(h)
         THEN SweepLoopRepeating(db, allocs, k + 1, t)
         ELSE SweepLoopRepeating(
                 update_shift_status(db, allocs, h, "completed", NoTime, t,
                                     "Shift automatically completed", t),
                 allocs, k + 1, t)

\* the loop of _release_completed_shifts over positions k.. of self.shifts,
\* current_time being the clock reading t: a shift that is not in progress is
\* skipped, one whose date does not parse raises into the except clause and
\* is skipped, one whose end the clock has passed is completed
RECURSIVE SweepLoop(_, _, _, _)
SweepLoop(db, allocs, k, t) ==
    IF k > Len(ShiftOrder) THEN db
    ELSE LET h == ShiftOrder[k] IN
         IF h \notin DOMAIN db.shifts \/ db.shifts[h].status # "in_progress"
         THEN SweepLoop(db, allocs, k + 1, t)
         ELSE IF strptime(Shift(h).date) < 0
         THEN SweepLoop(db, allocs, k + 1, t)
         ELSE IF t > ShiftEnd(h)
         THEN SweepLoop(update_shift_status(db, allocs, h, "completed", NoTime,
                                            t, "Shift automatically completed", t),
                        allocs, k + 1, t)
         ELSE SweepLoop(db, allocs, k + 1, t)

_release_completed_shifts(db, allocs, t) == SweepLoop(db, allocs, 1, t)

\* Database.get_working_staff at clock reading t: the sweep, then the staff
\* members carrying a current_shift_id attribute (StaffMember declares none)
GetWorkingStaff(t) ==
    LET swept == _release_completed_shifts(
                    Life(shifts, staff_availability, availability_timeline),
                    allocations, t)
    IN  /\ Written(swept)
        /\ last' = [op |-> "get_working_staff", at |-> t, working |-> <<>>,
                    completed |-> {h \in DOMAIN shifts :
                                     swept.shifts[h] # shifts[h]}]
        /\ UNCHANGED <<staff, allocations, nextId>>

\* Database.update_shift with ShiftUpdate(status = s)
UpdateShiftToStatus(shift_id, status) ==
    /\ shifts' = IF shift_id \in DOMAIN shifts
                 THEN [shifts EXCEPT ![shift_id].status = status]
                 ELSE shifts
    /\ last' = [op |-> "update_shift", shift_id |-> shift_id,
                status |-> status,
                outcome |-> IF shift_id \in DOMAIN shifts
                            THEN "returned" ELSE "null"]
    /\ UNCHANGED <<staff, allocations, staff_availability,
                   availability_timeline, nextId>>

\* create_staff that also opens the availability record of the new member
CreateStaffWithRecord(staff_id, t) ==
    /\ staff_id \notin staff
    /\ staff' = staff \cup {staff_id}
    /\ staff_availability' =
          [s \in DOMAIN staff_availability \cup {staff_id} |->
              IF s = staff_id
              THEN [status |-> "available", current_shift_id |-> "none",
                    available_from |-> t]
              ELSE staff_availability[s]]
    /\ last' = [op |-> "create_staff", staff_id |-> staff_id, at |-> t]
    /\ UNCHANGED <<shifts, allocations, availability_timeline, nextId>>

\* Database.create_staff: the new member is appended to self.staff
CreateStaff(staff_id, t) ==
    /\ staff_id \notin staff
    /\ staff' = staff \cup {staff_id}
    /\ last' = [op |-> "create_staff", staff_id |-> staff_id, at |-> t]
    /\ UNCHANGED <<shifts, allocations, staff_availability,
                   availability_timeline, nextId>>

(* ------------------------------------------------------------------ *)
(* Initial state and specifications                                     *)
(* ------------------------------------------------------------------ *)

\* a shift as create_shift and the mock data build it: scheduled, no actual
\* times, no completion notes
ScheduledShift(h) ==
    [max_capacity |-> InitialCapacity(h), status |-> "scheduled",
     actual_start_time |-> NoTime, actual_end_time |-> NoTime,
     completion_notes |-> "none"]

\* the record _initialize_staff_availability builds at clock reading 0
\* the server's asyncio event loop as the create handlers see it: the
\* create requests accepted and ready to run, in arrival order, and the
\* handlers standing at the advisory call of validate_allocation, between
\* rule evaluation and the persistence of their record
IdleLoop == [ready |-> <<>>, at_advisory |-> {}]

InitialAvailability ==
    [status |-> "available", current_shift_id |-> "none", available_from |-> 0]

\* Database.__init__ over the catalogue: no allocation yet, one availability
\* record per staff member (_initialize_staff_availability), empty timeline
Init ==
    /\ staff = StaffIds
    /\ shifts = [h \in ShiftIds |-> ScheduledShift(h)]
    /\ allocations = <<>>
    /\ staff_availability = [s \in StaffIds |-> InitialAvailability]
    /\ availability_timeline = <<>>
    /\ nextId = 1
    /\ calls = 0
    /\ last = [op |-> "init"]
    /\ now = 0
    /\ event_loop = IdleLoop

\* the record create(staff_id, shift_id) persists as allocation id on a
\* store holding allocs, the advisory replying llm
SeedRecord(id, staff_id, shift_id, allocs, llm) ==
    LET a == PendingRecord(id, staff_id, shift_id, <<>>)
    IN  CreatedRecord(a, validate_allocation(
                            a, allocs, [h \in ShiftIds |-> ScheduledShift(h)],
                            StaffIds, llm))

\* the allocations of a store on which create(s1, sh1) and create(s2, sh1)
\* have run: s1 confirmed on sh1, s2 pending on it
WardAllocations ==
    LET first == SeedRecord(1, "s1", "sh1", <<>>, "none")
    IN  <<first, SeedRecord(2, "s2", "sh1", <<first>>, "object")>>

\* the allocations of that store after create(s1, sh2) has run as well: s1
\* confirmed on sh1 and on sh2
DoubleDutyAllocations ==
    WardAllocations \o <<SeedRecord(3, "s1", "sh2", WardAllocations, "object")>>

\* Database.__init__ loading a store whose staff member s1 holds two shifts
InitDoubleDuty ==
    /\ staff = StaffIds
    /\ shifts = [h \in ShiftIds |-> ScheduledShift(h)]
    /\ allocations = DoubleDutyAllocations
    /\ staff_availability = [s \in StaffIds |-> InitialAvailability]
    /\ availability_timeline = <<>>
    /\ nextId = Len(DoubleDutyAllocations) + 1
    /\ calls = 0
    /\ last = [op |-> "init"]
    /\ now = 0
    /\ event_loop = IdleLoop

\* Database.__init__ loading a store that already holds allocations
InitWard ==
    /\ staff = StaffIds
    /\ shifts = [h \in ShiftIds |-> ScheduledShift(h)]
    /\ allocations = WardAllocations
    /\ staff_availability = [s \in StaffIds |-> InitialAvailability]
    /\ availability_timeline = <<>>
    /\ nextId = Len(WardAllocations) + 1
    /\ calls = 0
    /\ last = [op |-> "init"]
    /\ now = 0
    /\ event_loop = IdleLoop

\* a store on which create_staff has run for the rest of the roster (and
\* opened no availability record for them), without allocations or with
\* those of the ward
InitRoster ==
    /\ staff = Range(RosterOrder)
    /\ shifts = [h \in ShiftIds |-> ScheduledShift(h)]
    /\ allocations \in {<<>>, WardAllocations}
    /\ staff_availability = [s \in StaffIds |-> InitialAvailability]
    /\ availability_timeline = <<>>
    /\ nextId = Len(allocations) + 1
    /\ calls = 0
    /\ last = [op |-> "init"]
    /\ now = 0
    /\ event_loop = IdleLoop

\* one more request is accepted by the server and its handler runs to its
\* end with no other request waiting
Serve == calls < MaxCalls /\ calls' = calls + 1 /\ event_loop' = event_loop

\* the request is served at clock reading t, no earlier than the last one
At(t) == t >= now /\ now' = t

CreateCall ==
    \E staff_id \in StaffIds \cup {GhostStaff},
       shift_id \in ShiftIds \cup {GhostShift} :
        Serve /\ At(now) /\ Create(staff_id, shift_id)

AutoCall ==
    \E shift_ids \in ShiftIdLists :
        \E proposals \in [1..Len(shift_ids) -> StaffProposals] :
            Serve /\ At(now) /\ AutoAllocate(shift_ids, proposals)

ValidateCall == \E id \in 0..MaxAllocs : Serve /\ At(now) /\ ValidateById(id)

ConflictCall ==
    \E range \in AnalysisRanges :
        Serve /\ At(now) /\ GetConflictAnalysis(range[1], range[2])

StatusCall ==
    \E id \in 0..MaxAllocs, status \in RequestedStatuses :
        Serve /\ At(now) /\ UpdateAllocationStatus(id, status)

DeleteCall == \E id \in 0..MaxAllocs : Serve /\ At(now) /\ DeleteAllocation(id)

ShiftCall ==
    \E shift_id \in ShiftIds \cup {GhostShift}, max_capacity \in Capacities :
        Serve /\ At(now) /\ UpdateShift(shift_id, max_capacity)

\* a create for a staff member created after initialization
NewcomerCreateCall ==
    \E staff_id \in NewStaffIds, shift_id \in {"sh1", "sh2"} :
        Serve /\ At(now) /\ staff_id \in staff /\ Create(staff_id, shift_id)

SuggestCall ==
    \E shift_id \in ShiftIds \cup {GhostShift}, excluded \in ExcludedLists :
        Serve /\ At(now) /\ SuggestAlternatives(shift_id, excluded)

ScoreCall ==
    \E member \in ScoredStaff, shift \in ScoredShifts :
        Serve /\ At(now) /\ CalculateAllocationScore(member, shift)

CheckInCall ==
    \E staff_id \in StaffIds \cup NewStaffIds, shift_id \in {"sh1", "sh2"},
       t \in Times :
        Serve /\ At(t) /\ CheckIn(staff_id, shift_id, t)

CheckOutCall ==
    \E staff_id \in StaffIds \cup NewStaffIds, shift_id \in {"sh1", "sh2"},
       t \in Times :
        Serve /\ At(t) /\ CheckOut(staff_id, shift_id, t)

ShiftStatusCall ==
    \E shift_id \in ShiftIds \cup {GhostShift}, status \in ShiftStatuses,
       t \in Times :
        Serve /\ At(t) /\ UpdateShiftStatus(shift_id, status, t)

BulkCompleteCall ==
    \E shift_ids \in ShiftIdLists, t \in Times :
        Serve /\ At(t) /\ BulkCompleteShifts(shift_ids, t)

WorkingStaffCall == \E t \in Times : Serve /\ At(t) /\ GetWorkingStaff(t)

ShiftToStatusCall ==
    \E shift_id \in ShiftIds \cup {GhostShift}, status \in ShiftStatuses :
        Serve /\ At(now) /\ UpdateShiftToStatus(shift_id, status)

CreateStaffCall ==
    \E staff_id \in NewStaffIds, t \in Times :
        Serve /\ At(t) /\ CreateStaff(staff_id, t)

Next ==
    \/ CreateCall
    \/ AutoCall
    \/ ValidateCall
    \/ ConflictCall
    \/ StatusCall
    \/ DeleteCall
    \/ ShiftCall
    \/ NewcomerCreateCall
    \/ CheckInCall
    \/ CheckOutCall
    \/ ShiftStatusCall
    \/ BulkCompleteCall
    \/ WorkingStaffCall
    \/ ShiftToStatusCall
    \/ CreateStaffCall
    \/ SuggestCall
    \/ ScoreCall

Spec == Init /\ [][Next]_vars

NextCreate == CreateCall
SpecCreate == Init /\ [][NextCreate]_vars

NextValidate == CreateCall \/ ValidateCall
SpecValidate == Init /\ [][NextValidate]_vars

NextConflicts == CreateCall \/ ConflictCall
SpecConflicts == Init /\ [][NextConflicts]_vars

NextAuto == AutoCall
SpecAuto == Init /\ [][NextAuto]_vars

\* manual creates interleaved with the administrative writes of the store
NextAdmin == CreateCall \/ StatusCall \/ DeleteCall \/ ShiftCall
SpecAdmin == Init /\ [][NextAdmin]_vars

\* check-ins, check-outs and completion sweeps on a ward that takes in a new
\* staff member
NextAttendance ==
    \/ CheckInCall
    \/ CheckOutCall
    \/ WorkingStaffCall
    \/ CreateStaffCall
    \/ NewcomerCreateCall
SpecAttendance == InitWard /\ [][NextAttendance]_vars

\* POST /create arriving while the loop may be busy: the request becomes a
\* task that is ready to run; overlapped records that it arrived while
\* another create stood at its advisory call
RequestCreate(staff_id, shift_id) ==
    /\ Len(event_loop.ready) < MaxReady
    /\ event_loop' = [event_loop EXCEPT
                         !.ready = Append(@,
                            [staff_id |-> staff_id, shift_id |-> shift_id,
                             overlapped |-> \E task \in event_loop.at_advisory :
                                               task.a.shift_id = shift_id])]
    /\ last' = [op |-> "request_create", staff_id |-> staff_id,
                shift_id |-> shift_id]
    /\ UNCHANGED <<store, nextId>>

\* a handler that suspends at the advisory call and lets the loop run
\* another ready task
LoopYields == TRUE

\* the loop takes up a ready task only when no handler holds it. The chain
\* create_allocation -> validate_allocation -> _get_llm_constraint_analysis
\* -> evaluate_allocation_constraints -> generate_response awaits coroutines
\* only, and generate_response calls the synchronous Groq client: no await
\* of the chain hands control back to the loop, so the handler at the
\* advisory call holds the loop until it has persisted its record
LoopFree == event_loop.at_advisory = {}

\* create_allocation up to the advisory call (lines 25-44 and
\* validate_allocation lines 60-117): lookup, record, rule evaluation; with
\* no rule violated there is no advisory call and the record is persisted
CreateBegin ==
    /\ LoopFree
    /\ event_loop.ready # <<>>
    /\ LET request == Head(event_loop.ready)
           staff_id == request.staff_id
           shift_id == request.shift_id
           a == PendingRecord(nextId, staff_id, shift_id, <<>>)
           judged == JudgeAllocation(a, allocations, shifts, staff)
           call == [op |-> "create", staff_id |-> staff_id,
                    shift_id |-> shift_id, overlapped |-> request.overlapped]
       IN  IF staff_id \notin staff \/ shift_id \notin DOMAIN shifts
           THEN /\ event_loop' = [event_loop EXCEPT !.ready = Tail(@)]
                /\ last' = call @@ [outcome |-> "null"]
                /\ UNCHANGED <<store, nextId>>
           ELSE /\ nextId <= MaxAllocs
                /\ nextId' = nextId + 1
                /\ IF judged.total_violations > 0
                   THEN /\ event_loop' =
                              [event_loop EXCEPT
                                 !.ready = Tail(@),
                                 !.at_advisory =
                                    @ \cup {[a |-> a, judged |-> judged,
                                             overlapped |-> request.overlapped]}]
                        /\ last' = call @@ [outcome |-> "advisory"]
                        /\ UNCHANGED store
                   ELSE /\ event_loop' = [event_loop EXCEPT !.ready = Tail(@)]
                        /\ allocations' =
                              Append(allocations, CreatedRecord(a, judged))
                        /\ last' = call @@ [outcome |-> "returned",
                                            val |-> judged]
                        /\ UNCHANGED <<staff, shifts, staff_availability,
                                       availability_timeline>>

\* create_allocation from the return of the advisory call on
\* (validate_allocation lines 118-126, create_allocation lines 46-56)
CreateResume(task, llm) ==
    LET v == AdviseAllocation(task.judged, llm)
        call == [op |-> "create", staff_id |-> task.a.staff_id,
                 shift_id |-> task.a.shift_id, overlapped |-> task.overlapped]
    IN  /\ task \in event_loop.at_advisory
        /\ event_loop' = [event_loop EXCEPT !.at_advisory = @ \ {task}]
        /\ IF ~v.returned
           THEN /\ last' = call @@ [outcome |-> "raised", val |-> v]
                /\ UNCHANGED store
           ELSE /\ allocations' = Append(allocations, CreatedRecord(task.a, v))
                /\ last' = call @@ [outcome |-> "returned", val |-> v]
                /\ UNCHANGED <<staff, shifts, staff_availability,
                               availability_timeline>>
        /\ UNCHANGED nextId

RequestCreateCall ==
    \E staff_id \in StaffIds \cup {GhostStaff}, shift_id \in ShiftIds :
        /\ RequestCreate(staff_id, shift_id)
        /\ UNCHANGED <<calls, now>>

CreateBeginCall ==
    /\ calls < MaxCalls
    /\ calls' = calls + 1
    /\ CreateBegin
    /\ UNCHANGED now

CreateResumeCall ==
    \E task \in event_loop.at_advisory, llm \in LLMOutcomes :
        /\ CreateResume(task, llm)
        /\ UNCHANGED <<calls, now>>

\* create requests arriving concurrently
NextConcurrent ==
    \/ RequestCreateCall
    \/ CreateBeginCall
    \/ CreateResumeCall
SpecConcurrent == Init /\ [][NextConcurrent]_vars

\* the two callers of validate_multiple_allocations
NextBatch == AutoCall \/ ConflictCall
SpecBatch == Init /\ [][NextBatch]_vars

\* a ward whose staff check in and out and whose shifts are completed by
\* hand or by the sweep
NextWard ==
    \/ CheckInCall
    \/ CheckOutCall
    \/ ShiftStatusCall
    \/ WorkingStaffCall
SpecWard == InitDoubleDuty /\ [][NextWard]_vars

\* scores asked for staff and shifts over the attribute ranges
NextScore == ScoreCall
SpecScore == Init /\ [][NextScore]_vars

\* suggestions asked of the roster
NextSuggest == SuggestCall
SpecSuggest == InitRoster /\ [][NextSuggest]_vars

\* every operation that writes a shift's status
NextShiftLife ==
    \/ CheckInCall
    \/ ShiftStatusCall
    \/ BulkCompleteCall
    \/ WorkingStaffCall
    \/ ShiftToStatusCall
SpecShiftLife == InitWard /\ [][NextShiftLife]_vars

(* ------------------------------------------------------------------ *)
(* Capacity and the manual create path                                  *)
(* ------------------------------------------------------------------ *)

\* the step just taken is a create(staff_id, shift_id) whose staff and shift
\* both exist
CreateStep ==
    /\ last'.op = "create"
    /\ last'.staff_id \in staff
    /\ last'.shift_id \in DOMAIN shifts

\* C1: under manual creates alone no shift ever holds more confirmed
\* allocations than its max_capacity, and a create on a shift that already
\* holds max_capacity allocations (of any status) returns a record that is
\* not confirmed and reports shift_capacity among its critical violations.
C1_CreateRespectsCapacity ==
    [][ /\ \A h \in DOMAIN shifts' :
             ConfirmedCount(allocations', h) <= shifts'[h].max_capacity
        /\ ( /\ CreateStep
             /\ Len(get_allocations_by_shift(allocations, last'.shift_id))
                   >= shifts[last'.shift_id].max_capacity )
           => /\ last'.outcome = "returned"
              /\ <<"violated", "shift_capacity">> \in Range(last'.val.violations)
              /\ ~last'.val.is_valid
              /\ Len(allocations') = Len(allocations) + 1
              /\ allocations'[Len(allocations')].status # "confirmed"
              /\ <<"violated", "shift_capacity">>
                    \in Range(allocations'[Len(allocations')].potential_issues)
      ]_vars

\* C2: in every reachable state, whatever store-mutating operations ran
\* (create, auto_allocate, update_allocation_status, update_shift,
\* delete_allocation), no shift holds more confirmed allocations than its
\* max_capacity.
C2_ConfirmedWithinCapacity ==
    \A h \in DOMAIN shifts :
        ConfirmedCount(allocations, h) <= shifts[h].max_capacity

\* C3: a create naming a staff id or a shift id the store does not hold
\* returns null and leaves staff, shifts, allocations, availability records
\* and timeline as they were.
C3_CreateUnknownIsNull ==
    [][ ( /\ last'.op = "create"
          /\ last'.staff_id \notin staff \/ last'.shift_id \notin DOMAIN shifts )
        => /\ last'.outcome = "null"
           /\ staff' = staff
           /\ shifts' = shifts
           /\ allocations' = allocations
           /\ staff_availability' = staff_availability
           /\ availability_timeline' = availability_timeline
      ]_vars

\* C3 happens: a create with an unknown shift id came back null on a store
\* that already holds allocations
C3_Witness ==
    /\ last.op = "create"
    /\ last.outcome = "null"
    /\ last.staff_id \in staff
    /\ last.shift_id = GhostShift
    /\ Len(allocations) >= 2

\* C4: a create whose staff and shift exist persists exactly one new record
\* and returns it: confirmed with assigned_at set exactly when validation
\* said is_valid, otherwise pending with potential_issues = violations +
\* warnings, and never rejected.
C4_CreatePersistsOneRecord ==
    [][ CreateStep
        => /\ last'.outcome = "returned"
           /\ Len(allocations') = Len(allocations) + 1
           /\ SubSeq(allocations', 1, Len(allocations)) = allocations
           /\ LET rec == allocations'[Len(allocations')]
                  v == last'.val
              IN  /\ rec.staff_id = last'.staff_id
                  /\ rec.shift_id = last'.shift_id
                  /\ rec.id \notin AllocIds(allocations)
                  /\ rec.status = "confirmed" <=> v.is_valid
                  /\ rec.assigned_at <=> v.is_valid
                  /\ ~v.is_valid => rec.status = "pending"
                  /\ rec.potential_issues = v.violations \o v.warnings
                  /\ rec.status # "rejected"
      ]_vars

(* ------------------------------------------------------------------ *)
(* The rule engine's verdict                                            *)
(* ------------------------------------------------------------------ *)

\* the last request was validate(id) for a stored allocation whose staff
\* and shift exist; the store is as validate saw it
Validated ==
    /\ last.op = "validate"
    /\ last.id \in AllocIds(allocations)
    /\ get_allocation_by_id(allocations, last.id).staff_id \in staff
    /\ get_allocation_by_id(allocations, last.id).shift_id \in DOMAIN shifts

\* the rules whose check gives verdict on allocation a in the current store
RulesWith(verdict, a) ==
    {rule \in Range(RuleNames) :
        check_function(rule, a, allocations, shifts, staff) = verdict}

\* the five rules the specification calls critical
CriticalFive == {"max_weekly_hours", "skill_level_requirement",
                 "availability_check", "certification_requirements",
                 "shift_capacity"}

\* C5: validate of an allocation whose staff and shift exist returns
\* is_valid = true exactly when none of the five critical rules is violated
\* and severity_score = (violated critical rules) / 8; a violated high rule
\* adds only a warning, a violated medium rule only a suggestion.
C5_VerdictFromCriticalRules ==
    Validated =>
       LET a == get_allocation_by_id(allocations, last.id)
           bad == RulesWith("violated", a)
           v == last.val
       IN  /\ last.outcome = "returned"
           /\ v.is_valid <=> (bad \cap CriticalFive = {})
           /\ v.severity_score.num * 8
                 = Cardinality(bad \cap CriticalFive) * v.severity_score.den
           /\ \A rule \in bad \ CriticalFive :
                 LET msg == <<"violated", rule>>
                 IN  /\ msg \notin Range(v.violations)
                     /\ Severity(rule) = "high"
                           => msg \in Range(v.warnings)
                              /\ msg \notin Range(v.suggestions)
                     /\ Severity(rule) = "medium"
                           => msg \in Range(v.suggestions)
                              /\ msg \notin Range(v.warnings)
           /\ \A rule \in bad \cap CriticalFive :
                 <<"violated", rule>> \in Range(v.violations)

\* C6: when the check of a rule raises during validate, validation still
\* returns a result, the fault is a warning naming that rule, and every
\* other rule is still evaluated and listed in the per-rule detail.
C6_RuleFaultIsolated ==
    ( Validated
      /\ RulesWith("raised",
                   get_allocation_by_id(allocations, last.id)) # {} )
    => LET a == get_allocation_by_id(allocations, last.id)
           faulted == RulesWith("raised", a)
           v == last.val
       IN  /\ last.outcome = "returned"
           /\ \A rule \in faulted : <<"error", rule>> \in Range(v.warnings)
           /\ \A rule \in Range(RuleNames) \ faulted :
                 rule \in Range(v.constraint_details)

\* C7: when at least one rule is violated, validate returns a result
\* whatever the advisory call comes back with (JSON object, unparsable
\* text, provider error, JSON that is not an object), and is_valid,
\* severity_score, violations and warnings are the same for all of them.
C7_AdvisoryNeverDecides ==
    ( Validated /\ last.val.total_violations > 0 )
    => /\ last.outcome = "returned"
       /\ \A llm \in LLMOutcomes :
             LET w == validate_allocation(
                         get_allocation_by_id(allocations, last.id),
                         allocations, shifts, staff, llm)
             IN  /\ w.returned
                 /\ w.is_valid = last.val.is_valid
                 /\ w.severity_score = last.val.severity_score
                 /\ w.violations = last.val.violations
                 /\ w.warnings = last.val.warnings

(* ------------------------------------------------------------------ *)
(* The conflict detector                                                *)
(* ------------------------------------------------------------------ *)

\* the unordered pairs {i, j} of positions of batch holding distinct
\* allocations of one staff member whose shifts have the same date
DoubleBooked(batch) ==
    {pair \in SUBSET (1..Len(batch)) :
        /\ Cardinality(pair) = 2
        /\ \A i, j \in pair :
              /\ batch[i].staff_id = batch[j].staff_id
              /\ Shift(batch[i].shift_id).date = Shift(batch[j].shift_id).date}

Produced ==
    SelectSeq(allocations, LAMBDA a :
        a.id >= last.first_id /\ a.id < last.first_id + last.created)

\* C9: when auto_allocate returns, every allocation it materialized is
\* confirmed with assigned_at set if its own validation passed and rejected
\* otherwise; none is left pending.
C9_AutoDecidesEveryAllocation ==
    last.op = "auto_allocate"
    => /\ Len(Produced) = last.created
       /\ \A i \in 1..Len(Produced) :
             LET a == Produced[i]
                 passed == JudgeAllocation(a, allocations, shifts, staff).is_valid
             IN  /\ a.status # "pending"
                 /\ passed => a.status = "confirmed" /\ a.assigned_at
                 /\ ~passed => a.status = "rejected"

AutoNoShift ==
    \A k \in 1..Len(last.shift_ids) : last.shift_ids[k] \notin DOMAIN shifts

AutoValidationFault ==
    \E i \in 1..Len(Produced) : Produced[i].status = "pending"

AutoResultFault ==
    Len(SelectSeq(Produced, LAMBDA a : a.status = "confirmed"))
       > Len(last.shift_ids)

\* C11: auto_allocate never raises: every call returns a well-formed
\* result, and when the flow failed (no resolvable shift, advisory or
\* validation fault, result construction fault) the result has success =
\* false, no allocation, every requested shift id unallocated and the
\* recommendation to allocate manually.
C11_AutoNeverRaises ==
    last.op = "auto_allocate"
    => /\ last.outcome \in {"failure", "completed"}
       /\ DOMAIN last.result = {"success", "allocations", "unallocated_shifts",
                                "optimization_score", "recommendations"}
       /\ last.result.success \in BOOLEAN
       /\ last.result.optimization_score.num
             <= last.result.optimization_score.den
       /\ (AutoNoShift \/ AutoValidationFault \/ AutoResultFault)
          => /\ ~last.result.success
             /\ last.result.allocations = <<>>
             /\ last.result.unallocated_shifts = last.shift_ids
             /\ "Manual allocation required due to system error"
                   \in Range(last.result.recommendations)

\* C11 happens: validation raised over a batch materialized for two
\* requested shifts, one of them unknown, and the fallback result came back
C11_Witness ==
    /\ last.op = "auto_allocate"
    /\ AutoValidationFault
    /\ ~AutoNoShift
    /\ last.shift_ids = <<"sh2", "sh9">>
    /\ last.result.unallocated_shifts = <<"sh2", "sh9">>

(* ------------------------------------------------------------------ *)
(* Shift lifecycle                                                      *)
(* ------------------------------------------------------------------ *)

\* the position of a status in scheduled < in_progress < completed < archived
StatusRank(status) ==
    CASE status = "scheduled" -> 0
      [] status = "in_progress" -> 1
      [] status = "completed" -> 2
      [] status = "archived" -> 3

\* the step just taken is one of the writers of a shift's status: a check-in,
\* update_shift_status called to complete a shift, a bulk completion, the
\* auto-completion sweep or an administrative update_shift
StatusWriterStep ==
    \/ last'.op \in {"check_in", "bulk_complete_shifts", "get_working_staff",
                     "update_shift"}
    \/ last'.op = "update_shift_status" /\ last'.status = "completed"

\* C12: over scheduled < in_progress < completed < archived, no operation
\* that writes a shift's status (check-in, update_shift_status as the
\* completion call, bulk completion, the sweep, administrative update_shift)
\* replaces a shift's status by an earlier one.
C12_StatusNeverGoesBack ==
    [][ StatusWriterStep
        => \A h \in DOMAIN shifts :
              StatusRank(shifts'[h].status) >= StatusRank(shifts[h].status)
      ]_vars

\* C13: the auto-completion sweep changes nothing on account of a shift that
\* is already completed: the shift's status, actual_end_time and
\* completion_notes stay, and availability records and timeline change only
\* through the releases of the shifts this sweep completes, so that a sweep
\* finding none changes nothing; a second sweep run right after the first
\* leaves the store and the number of timeline entries as the first left
\* them.
C13_SweepIdempotent ==
    [][ last'.op = "get_working_staff"
        => LET swept == {h \in DOMAIN shifts :
                            /\ shifts[h].status = "in_progress"
                            /\ shifts'[h].status = "completed"}
               released == {p \in swept \X (1..Len(allocations)) :
                               p[2] <= Len(ConfirmedStaff(allocations, p[1]))}
           IN  /\ \A h \in DOMAIN shifts \ swept : shifts'[h] = shifts[h]
               /\ Len(availability_timeline')
                     = Len(availability_timeline) + Cardinality(released)
               /\ SubSeq(availability_timeline', 1, Len(availability_timeline))
                     = availability_timeline
               /\ \A s \in DOMAIN staff_availability :
                     (\A h \in swept :
                         s \notin Range(ConfirmedStaff(allocations, h)))
                     => staff_availability'[s] = staff_availability[s]
               /\ swept = {} => store' = store
               /\ (last.op = "get_working_staff" /\ last.at = last'.at)
                     => store' = store
      ]_vars

\* C13 happens: a sweep ran on a store whose shift sh1 an earlier sweep at
\* the same clock reading had completed, releasing its confirmed staff, and
\* it completed nothing
C13_Witness ==
    /\ last.op = "get_working_staff"
    /\ last.completed = {}
    /\ shifts["sh1"].status = "completed"
    /\ shifts["sh1"].completion_notes = "Shift automatically completed"
    /\ shifts["sh1"].actual_end_time = last.at
    /\ Len(availability_timeline) >= 3
    /\ availability_timeline[Len(availability_timeline)].status = "available"

\* C17: a bulk completion over a list of shift ids moves every existing
\* shift of the list to completed, recording actual_end_time and
\* completion_notes, and reports true for it; an unknown id is reported
\* false and the ids after it are still processed.
C17_BulkCompletesEach ==
    [][ last'.op = "bulk_complete_shifts"
        => /\ Len(last'.results) = Len(last'.shift_ids)
           /\ \A k \in 1..Len(last'.shift_ids) :
                 LET h == last'.shift_ids[k] IN
                 IF h \in DOMAIN shifts
                 THEN /\ last'.results[k]
                      /\ shifts'[h].status = "completed"
                      /\ shifts'[h].actual_end_time = last'.at
                      /\ shifts'[h].completion_notes = "Bulk completion"
                 ELSE ~last'.results[k]
      ]_vars

(* ------------------------------------------------------------------ *)
(* Attendance and availability                                          *)
(* ------------------------------------------------------------------ *)

\* the step just taken is a check-in of a staff member holding an allocation
\* on the shift
CheckInStep == last'.op = "check_in" /\ last'.outcome = "returned"

\* staff member s has the availability record [status, current_shift_id]
\* after the step
Becomes(s, status, current_shift_id) ==
    /\ s \in DOMAIN staff_availability'
    /\ staff_availability'[s].status = status
    /\ staff_availability'[s].current_shift_id = current_shift_id

\* C14: a check-in of a staff member holding an allocation on a scheduled
\* shift makes the shift in_progress with actual_start_time = the check-in
\* timestamp, and every staff member holding a confirmed allocation on the
\* shift becomes working with current_shift_id = the shift; a check-in on a
\* shift that is not scheduled leaves its status and actual_start_time.
C14_FirstCheckInStartsShift ==
    [][ CheckInStep
        => LET h == last'.shift_id IN
           IF shifts[h].status = "scheduled"
           THEN /\ shifts'[h].status = "in_progress"
                /\ shifts'[h].actual_start_time = last'.at
                /\ \A s \in staff :
                      s \in Range(ConfirmedStaff(allocations, h))
                      => Becomes(s, "working", h)
           ELSE /\ shifts'[h].status = shifts[h].status
                /\ shifts'[h].actual_start_time = shifts[h].actual_start_time
      ]_vars

\* staff member s has, after the step, an availability record that says
\* available from clock reading t with no current shift
Freed(s, t) ==
    /\ s \in DOMAIN staff_availability'
    /\ staff_availability'[s] =
          [status |-> "available", current_shift_id |-> "none",
           available_from |-> t]

\* C15: after the check-out of a staff member holding an allocation on the
\* shift, and after a shift completion releases a staff member, that staff
\* member's availability record has status available, current_shift_id null
\* and available_from = the check-out (release) timestamp; the checked-out
\* allocation has is_present = false.
C15_CheckOutFrees ==
    [][ /\ (last'.op = "check_out" /\ last'.outcome = "returned")
           => /\ ~allocations'[FirstAllocation(allocations, last'.staff_id,
                                               last'.shift_id)].is_present
              /\ last'.staff_id \in staff => Freed(last'.staff_id, last'.at)
        /\ last'.op = "get_working_staff"
           => \A h \in last'.completed :
                 \A s \in staff \cap Range(ConfirmedStaff(allocations, h)) :
                    Freed(s, last'.at)
      ]_vars

\* C16: after every check-out the allocation's overtime_hours is
\* max(0, hours_worked - 8) for the hours_worked that check-out leaves,
\* also when the allocation was checked in and out before with another
\* duration; hours_worked is 0 whenever checked_in_at or checked_out_at is
\* missing.
C16_OvertimeFollowsHours ==
    /\ (last.op = "check_out" /\ last.outcome = "returned")
       => LET a == allocations[FirstAllocation(allocations, last.staff_id,
                                               last.shift_id)]
          IN  a.overtime_hours
                 = IF hours_worked(a) > 8 THEN hours_worked(a) - 8 ELSE 0
    /\ \A i \in 1..Len(allocations) :
          (allocations[i].checked_in_at = NoTime
             \/ allocations[i].checked_out_at = NoTime)
          => hours_worked(allocations[i]) = 0

\* the timeline entries the step appended for staff member s
AppendedFor(s) ==
    {i \in (Len(availability_timeline) + 1)..Len(availability_timeline') :
        availability_timeline'[i].staff_id = s}

\* C18: the availability timeline is append-only and one-entry-per-change:
\* no operation modifies or removes an entry, and each check-in, check-out
\* or completion release appends exactly one entry for each staff member
\* whose status it sets, carrying the new status and the actor.
C18_TimelineOneEntryPerChange ==
    [][ /\ Len(availability_timeline') >= Len(availability_timeline)
        /\ SubSeq(availability_timeline', 1, Len(availability_timeline))
              = availability_timeline
        /\ last'.op \in {"check_in", "check_out", "get_working_staff"}
           => \A s \in DOMAIN staff_availability :
                 /\ Cardinality(AppendedFor(s)) <= 1
                 /\ staff_availability'[s] # staff_availability[s]
                       => Cardinality(AppendedFor(s)) = 1
                 /\ \A i \in AppendedFor(s) :
                       /\ availability_timeline'[i].status
                             = staff_availability'[s].status
                       /\ availability_timeline'[i].changed_by = "system"
      ]_vars

\* C19: in every reachable state each staff member of the store, those
\* created after initialization included, has its availability record, and
\* the check-in or check-out of a staff member holding the allocation shows
\* in that record.
C19_EveryStaffHasAvailability ==
    /\ \A s \in staff : s \in DOMAIN staff_availability
    /\ ( /\ last.op \in {"check_in", "check_out"}
         /\ last.outcome = "returned"
         /\ last.staff_id \in staff )
       => /\ last.staff_id \in DOMAIN staff_availability
          /\ staff_availability[last.staff_id].status
                = IF last.op = "check_in" THEN "working" ELSE "available"

(* ------------------------------------------------------------------ *)
(* Alternative suggestions                                              *)
(* ------------------------------------------------------------------ *)

\* the staff of the store that pass the filter and validate as valid for
\* shift h in the current store
ValidCandidates(h, excluded) ==
    {s \in Range(available_staff(staff, h, excluded)) :
        JudgeAllocation(PendingRecord(0, s, h, <<>>), allocations, shifts,
                        staff).is_valid}

\* C20: suggest_alternatives(shift_id, excluded_staff_ids) returns at most 5
\* candidates, none excluded, unavailable on the shift date or below the
\* shift's minimum skill level, every valid one before every invalid one
\* whatever the scores, by descending score within each group; an invalid
\* candidate is returned only when fewer than 5 valid candidates exist.
C20_SuggestionsOrdered ==
    last.op = "suggest"
    => /\ last.outcome = "returned"
       /\ LET got == last.suggestions
              h == last.shift_id
          IN  /\ Len(got) <= TopN
              /\ \A i \in 1..Len(got) :
                    /\ got[i].staff_id \notin Range(last.excluded)
                    /\ Shift(h).date
                          \notin StaffMember(got[i].staff_id).unavailable_dates
                    /\ StaffMember(got[i].staff_id).skill_level
                          >= Shift(h).minimum_skill_level
                    /\ got[i].is_valid
                          <=> got[i].staff_id \in ValidCandidates(h, last.excluded)
              /\ \A i, j \in 1..Len(got) :
                    i < j => /\ got[j].is_valid => got[i].is_valid
                             /\ got[i].is_valid = got[j].is_valid
                                   => got[i].suitability_score
                                         >= got[j].suitability_score
              /\ (\E i \in 1..Len(got) : ~got[i].is_valid)
                    => Cardinality(ValidCandidates(h, last.excluded)) < TopN

(* ------------------------------------------------------------------ *)
(* Scoring                                                              *)
(* ------------------------------------------------------------------ *)

\* C21: for every staff/shift pair within the declared attribute ranges the
\* allocation score lies in [0, 1]; with all other attributes fixed it never
\* decreases when skill_level increases; and when skill_level is below
\* minimum_skill_level the skill-match factor contributes 0.
C21_ScoreBoundedMonotone ==
    last.op = "score"
    => /\ 0 <= last.score /\ last.score <= 1000
       /\ 0 <= last.suitability /\ last.suitability <= 1000
       /\ \A k \in last.member.skill_level..10 :
             LET better == [last.member EXCEPT !.skill_level = k]
             IN  /\ Round2(WeightedScore(better, last.shift)) >= last.score
                 /\ Min(WeightedScore(better, last.shift), 1000)
                       >= last.suitability
       /\ last.member.skill_level < last.shift.minimum_skill_level
             => /\ SkillFactor(last.member, last.shift) = 0
                /\ last.score
                      = Round2(WeightedScore(
                           [last.member EXCEPT !.skill_level = 1], last.shift))

\* C21 happens: a score was computed for a staff member one level below the
\* shift's minimum, with every other factor granted
C21_Witness ==
    /\ last.op = "score"
    /\ last.member.skill_level = 5
    /\ last.shift.minimum_skill_level = 6
    /\ last.score = 700

(* ------------------------------------------------------------------ *)
(* References, rule tallies and batches                                 *)
(* ------------------------------------------------------------------ *)

\* C22: every allocation record added to the store, by manual create or by
\* auto_allocate, references a staff member and a shift that exist in the
\* store when it is added; an allocation whose staff or shift is missing is
\* reported by validate as invalid with severity_score 1.0.
C22_RecordsReferenceExisting ==
    [][ \A i \in 1..Len(allocations') :
           LET a == allocations'[i] IN
           /\ a.id \notin AllocIds(allocations)
                 => a.staff_id \in staff /\ a.shift_id \in DOMAIN shifts
           /\ (a.staff_id \notin staff' \/ a.shift_id \notin DOMAIN shifts')
                 => LET v == validate_allocation(a, allocations', shifts',
                                                 staff', "none")
                    IN  /\ ~v.is_valid
                        /\ v.severity_score.num = v.severity_score.den
      ]_vars

\* the confirmed allocations of shift h whose staff member has the role,
\* plus one when the candidate staff member s has it
ConfirmedRoleTally(role, s, h) ==
    Cardinality({i \in 1..Len(allocations) :
                    /\ allocations[i].shift_id = h
                    /\ allocations[i].status = "confirmed"
                    /\ allocations[i].staff_id \in staff
                    /\ StaffMember(allocations[i].staff_id).role = role})
    + (IF StaffMember(s).role = role THEN 1 ELSE 0)

\* C23: the role_requirements rule tallies only the shift's confirmed
\* allocations, plus the candidate's own role, against required_staff:
\* pending and rejected allocations of the shift count toward no role.
C23_RoleTallyConfirmedOnly ==
    [][ (CreateStep /\ last'.outcome = "returned")
        => ( "role_requirements" \in last'.val.violated
             <=> \E role \in DOMAIN Shift(last'.shift_id).required_staff :
                    ConfirmedRoleTally(role, last'.staff_id, last'.shift_id)
                       < Shift(last'.shift_id).required_staff[role] )
      ]_vars

\* C24: the max_weekly_hours rule totals 8 hours for each allocation the
\* staff member has in the Monday-start week of the candidate shift plus 8
\* hours for the candidate, counted once also when the candidate record is
\* already in the store (validate by id), and is violated exactly when the
\* total exceeds max_hours_per_week.
C24_WeeklyHoursCountCandidateOnce ==
    ( /\ Validated
      /\ last.outcome = "returned"
      /\ check_weekly_hours(get_allocation_by_id(allocations, last.id),
                            allocations, shifts) # "raised" )
    => LET a == get_allocation_by_id(allocations, last.id)
           shift_date == strptime(Shift(a.shift_id).date)
           others == SelectSeq(get_allocations_by_staff(allocations, a.staff_id),
                               LAMBDA x : x.id # a.id)
           total == WeeklyHours(others, shift_date - weekday(shift_date),
                                shifts) + 8
       IN  "max_weekly_hours" \in last.val.violated
              <=> total > StaffMember(a.staff_id).max_hours_per_week

\* C25: within one auto_allocate call and one batch validation, every
\* allocation of the batch is validated against the store holding the whole
\* materialized batch, and the conflict detector runs once over the complete
\* batch, not a prefix of it.
C25_BatchCompleteBeforeValidation ==
    /\ (last.op = "auto_allocate" /\ ~AutoValidationFault)
       => /\ Len(Produced) = last.created
          /\ \A i \in 1..Len(Produced) :
                Produced[i].status = "confirmed"
                   <=> JudgeAllocation(Produced[i], allocations, shifts,
                                       staff).is_valid
          /\ ~AutoNoShift
                => last.conflicts = check_global_conflicts(Produced, shifts)
    /\ (last.op = "conflicts" /\ last.outcome = "returned")
       => last.global_conflicts
             = check_global_conflicts(
                  RelevantAllocations(allocations, shifts, last.start_date,
                                      last.end_date), shifts)

\* C25 happens: an auto_allocate call materialized two records for one shift
\* and rejected the first for a capacity that only the second one fills
C25_Witness ==
    /\ last.op = "auto_allocate"
    /\ last.created = 2
    /\ Len(Produced) = 2
    /\ Produced[1].status = "rejected"
    /\ JudgeAllocation(Produced[1],
                       SelectSeq(allocations, LAMBDA a : a.id # Produced[2].id),
                       shifts, staff).is_valid

\* C26: after any sequence of manual create and auto_allocate calls from a
\* store without double-booking, no staff member holds two confirmed
\* allocations whose shifts fall on the same calendar date.
C26_NoConfirmedDoubleBooking ==
    \A i, j \in 1..Len(allocations) :
        ( /\ i < j
          /\ allocations[i].staff_id = allocations[j].staff_id
          /\ allocations[i].status = "confirmed"
          /\ allocations[j].status = "confirmed"
          /\ allocations[i].shift_id \in DOMAIN shifts
          /\ allocations[j].shift_id \in DOMAIN shifts )
        => Shift(allocations[i].shift_id).date
              # Shift(allocations[j].shift_id).date

\* C27: when auto_allocate returns, the allocations the call left confirmed
\* in the store are exactly the allocations listed in the result; a result
\* with success = false and no allocation implies the call confirmed nothing
\* in the store, also when it confirms more allocations than there are
\* requested shift ids.
C27_ResultListsStoredConfirmations ==
    last.op = "auto_allocate"
    => LET kept == SelectSeq(Produced, LAMBDA a : a.status = "confirmed") IN
       /\ kept = last.result.allocations
       /\ (~last.result.success /\ last.result.allocations = <<>>)
             => kept = <<>>

\* C28: under any sequence of check-in, check-out, shift completion and
\* sweep events, whenever an allocation on an in_progress shift has
\* is_present = true, that staff member's availability status is working:
\* completing one shift never releases a staff member who is checked in on
\* another, still in_progress shift.
C28_PresentStaffAreWorking ==
    \A i \in 1..Len(allocations) :
        ( /\ allocations[i].is_present
          /\ allocations[i].shift_id \in DOMAIN shifts
          /\ shifts[allocations[i].shift_id].status = "in_progress" )
        => /\ allocations[i].staff_id \in DOMAIN staff_availability
           /\ staff_availability[allocations[i].staff_id].status = "working"

C30_HoursNonNegative ==
    \A i \in 1..Len(allocations) :
        /\ hours_worked(allocations[i]) >= 0
        /\ allocations[i].overtime_hours >= 0
        /\ ( /\ allocations[i].checked_in_at # NoTime
             /\ allocations[i].checked_out_at # NoTime )
           => allocations[i].checked_out_at >= allocations[i].checked_in_at

====
